---- MODULE Spec2Model ----
(***************************************************************************)
(* IrisGridProxyModel (packages/iris-grid/src/IrisGridProxyModel.ts):      *)
(* a grid model that forwards to an active backing model and replaces it   *)
(* asynchronously when the rollup, partition or select-distinct            *)
(* configuration changes.                                                  *)
(*                                                                         *)
(* Backing models are numbered: 0 is originalModel, and the model that the *)
(* n-th issued transition builds (makeModel on the derived table) is n.    *)
(* A transition whose configuration is absent resolves to model 0 itself   *)
(* (Promise.resolve(this.originalModel)).                                  *)
(*                                                                         *)
(* Every step is one synchronous run of a method or of a promise handler.  *)
(* The proxy is not used after close(); the operations still under way     *)
(* then complete in the background.                                        *)
(***************************************************************************)
EXTENDS Integers, Sequences, FiniteSets, TLC

VARIABLES
    original,        \* capabilities of originalModel (fixed at construction)
    model,           \* this.model: id of the active backing model
    modelPromise,    \* this.modelPromise: 0 = null, else id of the stored transition
    rollup,          \* this.rollup
    partition,       \* this.partition
    selectDistinct,  \* this.selectDistinct
    currentViewport, \* this.currentViewport
    listenerCount,   \* IrisGridModel.listenerCount
    subscribed,      \* backing models on which handleModelEvent is registered
    transitions,     \* every cancelable promise made by setNextModel, in issue order
    columns,         \* identity of this.model.columns, the active model's array
    closeCount,      \* closeCount[m]: number of times m.close() has been invoked
    closed,          \* close() has been called on the proxy
    dispatched,      \* events the proxy dispatched during the last step
    calls,           \* calls made on backing models during the last step
    pendingData,     \* pending edits of the backing models that were given some
    limit,           \* number of transitions the behaviour may issue (fixed)
    expandError      \* message of the error an expand operation threw in the last step

vars == <<original, model, modelPromise, rollup, partition, selectDistinct,
          currentViewport, listenerCount, subscribed, transitions, columns,
          closeCount, closed, dispatched, calls, pendingData, limit,
          expandError>>

----------------------------------------------------------------------------
(* Bounds of the model *)

\* number of transitions (setNextModel calls) in one behaviour
MaxTransitions == 2

\* number of listeners registered on the proxy at one time
MaxListeners == 1

----------------------------------------------------------------------------
(* Values *)

\* originalModel is backing model 0
ORIGINAL == 0

\* this.modelPromise = null
NoPromise == 0

\* rollup = null, partition = null, currentViewport = undefined
NullRollup == [ref |-> "null", val |-> "null"]

NullPartition == [mode |-> "null"]

NoViewport == [top |-> -1, bottom |-> -1, columns |-> -1]

\* the longest behaviours issue one transition more than the others
DeepTransitions == MaxTransitions + 1

\* the original model and the models the transitions build
ModelIds == 0..limit

\* a backing model without pending edits: an empty map (identity 0), no rows
NoPendingData == [dataMap |-> 0, rowCount |-> 0]

\* pending edits set through the proxy: a map (by identity), a row count
PendingDataMaps == {1}

PendingRowCounts == {1}

\* rollup configurations: two instances with the same content, one other
RollupInputs ==
    { NullRollup,
      [ref |-> "r1", val |-> "byA"],
      [ref |-> "r2", val |-> "byA"],
      [ref |-> "r3", val |-> "byB"] }

\* column names of the original model
OriginalColumnNames == {"A"}

\* select-distinct arrays: an empty one, two instances with the same content,
\* and one naming a column the original model does not have
EmptyArray == [ref |-> "a0", names |-> <<>>]

SelectDistinctInputs ==
    { [ref |-> "a1", names |-> <<>>],
      [ref |-> "a2", names |-> <<"A">>],
      [ref |-> "a3", names |-> <<"A">>],
      [ref |-> "a4", names |-> <<"Z">>] }

PartitionInputs ==
    { NullPartition,
      [mode |-> "keys"],
      [mode |-> "merged"],
      [mode |-> "partition"] }

\* viewports: rows top..bottom and the columns array (by identity)
Viewports == { [top |-> 5, bottom |-> 50, columns |-> 9] }

\* a second viewport, without columns (undefined is identity 0)
MoreViewports == Viewports \cup { [top |-> 6, bottom |-> 60, columns |-> 0] }

\* errors a derivation can reject with
Errors == {101, 102}

\* events of a backing model that the proxy relays
RelayedEvents == { [type |-> "UPDATED", detail |-> 7] }

\* partitionColumns of a model without partitions, and of one with a
\* partition column
NoColumns == <<>>

PartitionColumns == <<"P">>

\* the original model: a flat table, a partition-aware flat table,
\* a partitioned table, a tree table, an input table
OriginalModels ==
    { [shape |-> "table", isRollupAvailable |-> TRUE,
       isSelectDistinctAvailable |-> TRUE,
       isPartitionedGridModelProvider |-> TRUE, isPartitionRequired |-> FALSE,
       partitionColumns |-> NoColumns,
       hasExpandableRows |-> FALSE, isExpandAllAvailable |-> FALSE,
       isEditable |-> FALSE, isDeletable |-> FALSE],
      [shape |-> "table", isRollupAvailable |-> TRUE,
       isSelectDistinctAvailable |-> TRUE,
       isPartitionedGridModelProvider |-> TRUE, isPartitionRequired |-> TRUE,
       partitionColumns |-> PartitionColumns,
       hasExpandableRows |-> FALSE, isExpandAllAvailable |-> FALSE,
       isEditable |-> FALSE, isDeletable |-> FALSE],
      [shape |-> "partitioned", isRollupAvailable |-> FALSE,
       isSelectDistinctAvailable |-> FALSE,
       isPartitionedGridModelProvider |-> TRUE, isPartitionRequired |-> TRUE,
       partitionColumns |-> PartitionColumns,
       hasExpandableRows |-> FALSE, isExpandAllAvailable |-> FALSE,
       isEditable |-> FALSE, isDeletable |-> FALSE],
      [shape |-> "tree", isRollupAvailable |-> FALSE,
       isSelectDistinctAvailable |-> FALSE,
       isPartitionedGridModelProvider |-> FALSE, isPartitionRequired |-> FALSE,
       partitionColumns |-> NoColumns,
       hasExpandableRows |-> TRUE, isExpandAllAvailable |-> FALSE,
       isEditable |-> FALSE, isDeletable |-> FALSE],
      [shape |-> "table", isRollupAvailable |-> TRUE,
       isSelectDistinctAvailable |-> TRUE,
       isPartitionedGridModelProvider |-> TRUE, isPartitionRequired |-> FALSE,
       partitionColumns |-> NoColumns,
       hasExpandableRows |-> FALSE, isExpandAllAvailable |-> FALSE,
       isEditable |-> TRUE, isDeletable |-> TRUE] }

----------------------------------------------------------------------------
(* Backing models *)

\* makeModel: the model class is chosen by the shape of the table; a rollup
\* yields a tree table, every other derivation a flat table
makeModel(source) == IF source = "rollup" THEN "tree" ELSE "table"

\* the transformations that lead from the original table to the table of
\* backing model m
RECURSIVE Derivation(_)
Derivation(m) ==
    IF m = ORIGINAL THEN << >>
    ELSE Append(Derivation(transitions[m].base), transitions[m].source)

\* the shape of backing model m
ShapeOf(m) ==
    IF m = ORIGINAL THEN original.shape ELSE makeModel(transitions[m].source)

\* isIrisGridTableModelTemplate: the model is table-backed (non-hierarchical)
isIrisGridTableModelTemplate(shape) == shape = "table"

\* model.close()
CloseModel(cc, m) == [cc EXCEPT ![m] = @ + 1]

----------------------------------------------------------------------------
(* Cancelable transition (PromiseUtils.makeCancelable) *)

\* a derivation that starts from the table of the active model
DerivedFromActive(active) == active

\* the model whose table a setter derives the new table from:
\* this.originalModel
DerivedFrom(active) == ORIGINAL

\* a new cancelable promise around the deferred model of `source`, which is
\* derived from the table of model `base`
makeCancelable(source, base) ==
    [source |-> source, base |-> base, canceled |-> FALSE,
     status |-> "pending", error |-> 0]

\* CancelablePromise.cancel: the result will be disposed, not delivered
cancel(trs, t) == [trs EXCEPT ![t].canceled = TRUE]

\* the model the underlying operation of transition t produces
ResultOf(t) == IF transitions[t].source = "original" THEN ORIGINAL ELSE t

Pending(t) == transitions[t].status = "pending"

\* the outcome of the underlying operation reaches the handlers only if the
\* promise was not canceled; a model produced after cancellation goes to the
\* disposal callback instead
Delivers(t) == ~transitions[t].canceled

----------------------------------------------------------------------------
(* Listeners *)

addListeners(subs, m) == subs \cup {m}

removeListeners(subs, m) == subs \ {m}

startListening(subs, m) == addListeners(subs, m)

stopListening(subs, m) == removeListeners(subs, m)

\* handleModelEvent: re-dispatch with the same type and detail
handleModelEvent(event) == [type |-> event.type, detail |-> event.detail]

----------------------------------------------------------------------------
(* Availability *)

\* rollup availability that ignores the select-distinct configuration
isRollupAvailableWithDistinct ==
    original.isRollupAvailable \/ rollup # NullRollup

isRollupAvailable ==
    /\ (original.isRollupAvailable \/ rollup # NullRollup)
    /\ Len(selectDistinct.names) = 0

isSelectDistinctAvailable ==
    /\ (original.isSelectDistinctAvailable \/ Len(selectDistinct.names) > 0)
    /\ rollup = NullRollup

isPartitionRequired ==
    IF original.isPartitionedGridModelProvider
    THEN original.isPartitionRequired ELSE FALSE

\* a comparison by instance
sameInstance(a, b) == a.ref = b.ref

\* fast-deep-equal: equal content, whatever the instance
deepEqual(a, b) == a.val = b.val

----------------------------------------------------------------------------
(* Capabilities *)

\* what backing model m itself supports: the original model as constructed;
\* a built model by its class (a tree table expands, a flat table built from
\* a derived table has no input table and no partitions)
ModelCapabilities(m) ==
    IF m = ORIGINAL
    THEN [hasExpandableRows |-> original.hasExpandableRows,
          isExpandAllAvailable |-> original.isExpandAllAvailable,
          isEditable |-> original.isEditable,
          isDeletable |-> original.isDeletable,
          isPartitionRequired |->
              original.isPartitionedGridModelProvider
                  /\ original.isPartitionRequired,
          partitionColumns |-> original.partitionColumns]
    ELSE [hasExpandableRows |-> ShapeOf(m) = "tree",
          isExpandAllAvailable |-> ShapeOf(m) = "tree",
          isEditable |-> FALSE,
          isDeletable |-> FALSE,
          isPartitionRequired |-> FALSE,
          partitionColumns |-> NoColumns]

\* the capability predicates
isExpandableGridModel(shape) == shape = "tree"

isEditableGridModel(shape) == shape = "table"

isDeletableGridModel(shape) == shape = "table"

\* no error thrown
NoError == ""

\* the rows of a grid: a parent row and one of its children
Rows == {0, 1}

\* what an expandable backing model answers for a row: the parent row is
\* expandable, expanded and at depth 0, the child is a leaf at depth 1
ModelRow(m, row) ==
    [isRowExpandable |-> row = 0, isRowExpanded |-> row = 0,
     depthForRow |-> row]

\* `table` of a model that is not table-backed
NoTable == -1

\* the getters of the proxy
hasExpandableRows ==
    IF isExpandableGridModel(ShapeOf(model))
    THEN ModelCapabilities(model).hasExpandableRows ELSE FALSE

isExpandAllAvailable ==
    IF isExpandableGridModel(ShapeOf(model))
    THEN ModelCapabilities(model).isExpandAllAvailable ELSE FALSE

\* isEditable read from the original model
isEditableOfOriginal ==
    isEditableGridModel(ShapeOf(ORIGINAL))
        /\ ModelCapabilities(ORIGINAL).isEditable

isEditable ==
    isEditableGridModel(ShapeOf(model)) /\ ModelCapabilities(model).isEditable

isDeletable ==
    isDeletableGridModel(ShapeOf(model)) /\ ModelCapabilities(model).isDeletable

partitionColumns ==
    IF ~original.isPartitionedGridModelProvider
    THEN NoColumns ELSE original.partitionColumns

\* the table of the active model, by the identity of the model
table ==
    IF isIrisGridTableModelTemplate(ShapeOf(model)) THEN model ELSE NoTable

----------------------------------------------------------------------------
(* Initial state: the constructor *)

\* the proxy as the constructor leaves it
Constructed ==
    /\ original \in OriginalModels
    /\ model = ORIGINAL
    /\ modelPromise = NoPromise
    /\ rollup = NullRollup
    /\ partition = NullPartition
    /\ selectDistinct = EmptyArray
    /\ currentViewport = NoViewport
    /\ listenerCount = 0
    /\ subscribed = {}
    /\ transitions = <<>>
    /\ columns = ORIGINAL
    /\ closeCount = [m \in ModelIds |-> 0]
    /\ closed = FALSE
    /\ dispatched = <<>>
    /\ calls = <<>>
    /\ pendingData = << >>
    /\ expandError = NoError

Init ==
    /\ limit = MaxTransitions
    /\ Constructed

\* the same proxy, followed for one transition more
InitDeep ==
    /\ limit = DeepTransitions
    /\ Constructed

----------------------------------------------------------------------------
(* setNextModel: cancel the stored transition, detach from the active model,
   store the new cancelable promise *)

\* setNextModel without the cancellation of the stored transition
CancelStoredSkipped(trs, mp) == trs

CancelStored(trs, mp) == IF mp # NoPromise THEN cancel(trs, mp) ELSE trs

DetachForTransition(subs, count, m) ==
    IF count > 0 THEN removeListeners(subs, m) ELSE subs

setNextModel(source) ==
    /\ Len(transitions) < limit
    /\ transitions' =
         Append(CancelStored(transitions, modelPromise),
                makeCancelable(source, DerivedFrom(model)))
    /\ subscribed' = DetachForTransition(subscribed, listenerCount, model)
    /\ modelPromise' = Len(transitions) + 1
    /\ dispatched' = <<>>
    /\ calls' = <<>>
    /\ expandError' = NoError
    /\ UNCHANGED <<original, pendingData, limit, model, currentViewport,
                   listenerCount, columns, closeCount, closed>>

\* a setter that throws, or returns before changing anything
Returns ==
    /\ dispatched' = <<>>
    /\ calls' = <<>>
    /\ expandError' = NoError
    /\ UNCHANGED <<original, pendingData, limit, model, modelPromise, rollup,
                   partition,
                   selectDistinct, currentViewport, listenerCount, subscribed,
                   transitions, columns, closeCount, closed>>


----------------------------------------------------------------------------
(* The three configuration setters *)

RollupSource(v) ==
    IF isIrisGridTableModelTemplate(original.shape) /\ v # NullRollup
    THEN "rollup" ELSE "original"

\* a rollup setter that accepts every call
RollupAlwaysAccepted == FALSE

\* throw new Error('Rollup Rows are not available')
RollupRefused == ~isRollupAvailable

\* a rollup setter that builds the model but keeps the old configuration
RollupNotRecorded(v, cur) == cur

\* this.rollup = rollupConfig
RollupRecorded(v, cur) == v

SetRollupConfig(v) ==
    /\ ~closed
    /\ IF RollupRefused THEN Returns
       ELSE IF deepEqual(v, rollup) THEN Returns
       ELSE /\ rollup' = RollupRecorded(v, rollup)
            /\ setNextModel(RollupSource(v))
            /\ UNCHANGED <<partition, selectDistinct>>

\* partitionKeysTable(), partitionMergedTable() or partitionTable(partitions),
\* by the mode: each derives a table from the original model; the mode stays
\* recorded in `partition`
PartitionSource(v) ==
    IF v # NullPartition /\ original.isPartitionedGridModelProvider
    THEN "partition" ELSE "original"

SetPartitionConfig(v) ==
    /\ ~closed
    /\ IF ~isPartitionRequired THEN Returns
       ELSE /\ partition' = v
            /\ setNextModel(PartitionSource(v))
            /\ UNCHANGED <<rollup, selectDistinct>>

\* the test that makes the selectDistinctColumns setter return early
SameSelectDistinct(v, cur) ==
    \/ v.ref = cur.ref
    \/ (Len(v.names) = 0 /\ Len(cur.names) = 0)

\* the named columns the original model has
FoundColumns(names) == SelectSeq(names, LAMBDA n : n \in OriginalColumnNames)

SelectDistinctSource(v) ==
    IF isIrisGridTableModelTemplate(original.shape) /\ Len(FoundColumns(v.names)) > 0
    THEN "selectDistinct" ELSE "original"

SetSelectDistinctColumns(v) ==
    /\ ~closed
    /\ IF ~isSelectDistinctAvailable THEN Returns
       ELSE IF SameSelectDistinct(v, selectDistinct)
            THEN Returns
       ELSE /\ selectDistinct' = v
            /\ setNextModel(SelectDistinctSource(v))
            /\ UNCHANGED <<rollup, partition>>

----------------------------------------------------------------------------
(* setModel: swap reconciliation *)

CloseReplaced(cc, oldModel) ==
    IF oldModel # ORIGINAL THEN CloseModel(cc, oldModel) ELSE cc

\* a swap that keeps forwarding to the old model
ActiveKept(oldModel, next) == oldModel

\* this.model = model
ActiveAfterSwap(oldModel, next) == next

AttachAfterSwap(subs, count, next) ==
    IF count > 0 THEN addListeners(subs, next) ELSE subs

\* a swap that never announces its columns
ColumnsChangedSilently(oldColumns, newColumns) == << >>

ColumnsChanged(oldColumns, newColumns) ==
    IF oldColumns # newColumns
    THEN << [type |-> "COLUMNS_CHANGED", detail |-> newColumns] >>
    ELSE << >>

\* a swap that leaves the new model without a viewport
ViewportDropped(oldColumns, newColumns, viewport, next) == << >>

ViewportReapplied(oldColumns, newColumns, viewport, next) ==
    IF oldColumns = newColumns /\ viewport # NoViewport
    THEN << [model |-> next, top |-> viewport.top, bottom |-> viewport.bottom,
             columns |-> viewport.columns] >>
    ELSE << >>

\* a swap that announces a table for every model
TableChangedAlways(next) == << [type |-> "TABLE_CHANGED", detail |-> next] >>

TableChanged(next) ==
    IF isIrisGridTableModelTemplate(ShapeOf(next))
    THEN << [type |-> "TABLE_CHANGED", detail |-> next] >>
    ELSE << >>

setModel(next, newColumns) ==
    /\ closeCount' = CloseReplaced(closeCount, model)
    /\ model' = ActiveAfterSwap(model, next)
    /\ subscribed' = AttachAfterSwap(subscribed, listenerCount, next)
    /\ columns' = newColumns
    /\ dispatched' = ColumnsChanged(columns, newColumns) \o TableChanged(next)
    /\ calls' = ViewportReapplied(columns, newColumns, currentViewport, next)

----------------------------------------------------------------------------
(* Completion of a transition: the handlers setNextModel attaches *)

\* the slot after the success handler and after the failure handler
SlotAfterSuccess(mp) == NoPromise

\* a failure handler that leaves the slot as it is
SlotKept(mp) == mp

SlotAfterFailure(mp) == NoPromise

RequestFailed(err) == << [type |-> "REQUEST_FAILED", detail |-> err] >>

\* identities the `columns` array of the model of transition t can have: the
\* original model's array (identity ORIGINAL), the active model's array, or,
\* for a built model, an array of its own
BuiltColumns(t) ==
    IF ResultOf(t) = ORIGINAL THEN {ORIGINAL} ELSE {ORIGINAL, columns, t}

\* the underlying operation of transition t produces its model
Resolve(t) ==
    /\ t \in 1..Len(transitions)
    /\ Pending(t)
    /\ IF Delivers(t)
       THEN \* success handler: clear the slot, setModel
            /\ transitions' = [transitions EXCEPT ![t].status = "installed"]
            /\ modelPromise' = SlotAfterSuccess(modelPromise)
            /\ \E c \in BuiltColumns(t) : setModel(ResultOf(t), c)
       ELSE \* disposal callback: model.close()
            /\ closeCount' = CloseModel(closeCount, ResultOf(t))
            /\ transitions' = [transitions EXCEPT ![t].status = "disposed"]
            /\ dispatched' = <<>>
            /\ calls' = <<>>
            /\ UNCHANGED <<model, modelPromise, subscribed, columns>>
    /\ expandError' = NoError
    /\ UNCHANGED <<original, pendingData, limit, rollup, partition,
                   selectDistinct, currentViewport,
                   listenerCount, closed>>

\* the underlying operation of transition t fails with err
Reject(t, err) ==
    /\ t \in 1..Len(transitions)
    /\ Pending(t)
    /\ transitions[t].source # "original"
    /\ IF Delivers(t)
       THEN \* failure handler: clear the slot, dispatch REQUEST_FAILED
            /\ transitions' = [transitions EXCEPT ![t].status = "failed",
                                                  ![t].error = err]
            /\ modelPromise' = SlotAfterFailure(modelPromise)
            /\ dispatched' = RequestFailed(err)
       ELSE \* the handler saw the cancellation and returned silently
            /\ transitions' = [transitions EXCEPT ![t].status = "dropped"]
            /\ dispatched' = <<>>
            /\ UNCHANGED modelPromise
    /\ calls' = <<>>
    /\ expandError' = NoError
    /\ UNCHANGED <<original, pendingData, limit, model, rollup, partition,
                   selectDistinct,
                   currentViewport, listenerCount, subscribed, columns,
                   closeCount, closed>>

----------------------------------------------------------------------------
(* close *)

CloseActive(cc, active) ==
    IF active # ORIGINAL THEN CloseModel(cc, active) ELSE cc

\* close without the cancellation of the stored transition
CancelOnCloseSkipped(trs, mp) == trs

CancelOnClose(trs, mp) == IF mp # NoPromise THEN cancel(trs, mp) ELSE trs

Close ==
    /\ ~closed
    /\ closed' = TRUE
    /\ closeCount' = CloseActive(CloseModel(closeCount, ORIGINAL), model)
    /\ transitions' = CancelOnClose(transitions, modelPromise)
    /\ dispatched' = <<>>
    /\ calls' = <<>>
    /\ expandError' = NoError
    /\ UNCHANGED <<original, pendingData, limit, model, modelPromise, rollup,
                   partition,
                   selectDistinct, currentViewport, listenerCount, subscribed,
                   columns>>

----------------------------------------------------------------------------
(* Listeners on the proxy, viewport, events of backing models *)

\* IrisGridModel.addEventListener: the first listener starts listening
AddEventListener ==
    /\ ~closed
    /\ listenerCount < MaxListeners
    /\ listenerCount' = listenerCount + 1
    /\ subscribed' = IF listenerCount' = 1
                     THEN startListening(subscribed, model) ELSE subscribed
    /\ dispatched' = <<>>
    /\ calls' = <<>>
    /\ expandError' = NoError
    /\ UNCHANGED <<original, pendingData, limit, model, modelPromise, rollup,
                   partition,
                   selectDistinct, currentViewport, transitions, columns,
                   closeCount, closed>>

\* IrisGridModel.removeEventListener: the last listener stops listening
RemoveEventListener ==
    /\ ~closed
    /\ listenerCount > 0
    /\ listenerCount' = listenerCount - 1
    /\ subscribed' = IF listenerCount' = 0
                     THEN stopListening(subscribed, model) ELSE subscribed
    /\ dispatched' = <<>>
    /\ calls' = <<>>
    /\ expandError' = NoError
    /\ UNCHANGED <<original, pendingData, limit, model, modelPromise, rollup,
                   partition,
                   selectDistinct, currentViewport, transitions, columns,
                   closeCount, closed>>

SetViewport(vp) ==
    /\ ~closed
    /\ currentViewport' = vp
    /\ calls' = << [model |-> model, top |-> vp.top, bottom |-> vp.bottom,
                     columns |-> vp.columns] >>
    /\ dispatched' = <<>>
    /\ expandError' = NoError
    /\ UNCHANGED <<original, pendingData, limit, model, modelPromise, rollup,
                   partition,
                   selectDistinct, listenerCount, subscribed, transitions,
                   columns, closeCount, closed>>

\* backing model m fires an event; the proxy relays it if its handler is
\* registered on m
FireModelEvent(m, event) ==
    /\ ~closed
    /\ m \in subscribed \cup {model}
    /\ dispatched' = IF m \in subscribed THEN <<handleModelEvent(event)>> ELSE <<>>
    /\ calls' = <<>>
    /\ expandError' = NoError
    /\ UNCHANGED <<original, pendingData, limit, model, modelPromise, rollup,
                   partition,
                   selectDistinct, currentViewport, listenerCount, subscribed,
                   transitions, columns, closeCount, closed>>

----------------------------------------------------------------------------
(* Pending edits: the accessors forward to the active model *)

\* pendingDataMap and pendingRowCount of backing model m
PendingDataOf(m) ==
    IF m \in DOMAIN pendingData THEN pendingData[m] ELSE NoPendingData

\* get pendingDataMap, get pendingRowCount
pendingDataMap == PendingDataOf(model).dataMap

pendingRowCount == PendingDataOf(model).rowCount

\* set pendingDataMap
SetPendingDataMap(map) ==
    /\ ~closed
    /\ pendingData' =
         (model :> [PendingDataOf(model) EXCEPT !.dataMap = map]) @@ pendingData
    /\ dispatched' = <<>>
    /\ calls' = <<>>
    /\ expandError' = NoError
    /\ UNCHANGED <<original, limit, model, modelPromise, rollup, partition,
                   selectDistinct, currentViewport, listenerCount, subscribed,
                   transitions, columns, closeCount, closed>>

\* set pendingRowCount
SetPendingRowCount(count) ==
    /\ ~closed
    /\ pendingData' =
         (model :> [PendingDataOf(model) EXCEPT !.rowCount = count])
             @@ pendingData
    /\ dispatched' = <<>>
    /\ calls' = <<>>
    /\ expandError' = NoError
    /\ UNCHANGED <<original, limit, model, modelPromise, rollup, partition,
                   selectDistinct, currentViewport, listenerCount, subscribed,
                   transitions, columns, closeCount, closed>>

----------------------------------------------------------------------------
(* Expand operations: forwarded to an expandable active model only *)

\* the queries
isRowExpandable(row) ==
    IF isExpandableGridModel(ShapeOf(model))
    THEN ModelRow(model, row).isRowExpandable ELSE FALSE

isRowExpanded(row) ==
    IF isExpandableGridModel(ShapeOf(model))
    THEN ModelRow(model, row).isRowExpanded ELSE FALSE

depthForRow(row) ==
    IF isExpandableGridModel(ShapeOf(model))
    THEN ModelRow(model, row).depthForRow ELSE 0

\* throw Error('Function <name> does not exist on IrisGridTableModel')
DoesNotExist(name) ==
    IF name = "setRowExpanded"
    THEN "Function setRowExpanded does not exist on IrisGridTableModel"
    ELSE IF name = "expandAll"
    THEN "Function expandAll does not exist on IrisGridTableModel"
    ELSE "Function collapseAll does not exist on IrisGridTableModel"

\* an expand operation that is forwarded to every kind of model
ForwardedAlways(active) == TRUE

\* if (isExpandableGridModel(this.model))
ForwardedTo(active) == isExpandableGridModel(ShapeOf(active))

\* setRowExpanded, expandAll, collapseAll: forward the call, or throw
ExpandOperation(name, args) ==
    /\ ~closed
    /\ IF ForwardedTo(model)
       THEN /\ calls' = << [model |-> model, name |-> name, args |-> args] >>
            /\ expandError' = NoError
       ELSE /\ calls' = << >>
            /\ expandError' = DoesNotExist(name)
    /\ dispatched' = <<>>
    /\ UNCHANGED <<original, pendingData, limit, model, modelPromise, rollup,
                   partition, selectDistinct, currentViewport, listenerCount,
                   subscribed, transitions, columns, closeCount, closed>>

SetRowExpanded(row, isExpanded) ==
    ExpandOperation("setRowExpanded", <<row, isExpanded>>)

ExpandAll == ExpandOperation("expandAll", << >>)

CollapseAll == ExpandOperation("collapseAll", << >>)

----------------------------------------------------------------------------

Next ==
    \/ \E v \in RollupInputs : SetRollupConfig(v)
    \/ \E v \in PartitionInputs : SetPartitionConfig(v)
    \/ \E v \in SelectDistinctInputs : SetSelectDistinctColumns(v)
    \/ \E t \in 1..Len(transitions) : Resolve(t)
    \/ \E t \in 1..Len(transitions), err \in Errors : Reject(t, err)
    \/ Close
    \/ AddEventListener
    \/ RemoveEventListener
    \/ \E vp \in Viewports : SetViewport(vp)
    \/ \E m \in ModelIds, event \in RelayedEvents : FireModelEvent(m, event)

Spec == Init /\ [][Next]_vars

\* configuration changes and their completions
Reconfigures ==
    \/ \E v \in RollupInputs : SetRollupConfig(v)
    \/ \E v \in PartitionInputs : SetPartitionConfig(v)
    \/ \E v \in SelectDistinctInputs : SetSelectDistinctColumns(v)
    \/ \E t \in 1..Len(transitions) : Resolve(t)

\* the proxy of an editable grid: pending edits and configuration changes
NextEdits ==
    \/ Reconfigures
    \/ \E map \in PendingDataMaps \cup {NoPendingData.dataMap} :
          SetPendingDataMap(map)
    \/ \E count \in PendingRowCounts \cup {NoPendingData.rowCount} :
          SetPendingRowCount(count)

SpecEdits == Init /\ [][NextEdits]_vars

\* the proxy of a scrolled grid: viewports, configuration changes, failures
\* and close
NextViewport ==
    \/ Reconfigures
    \/ \E t \in 1..Len(transitions), err \in Errors : Reject(t, err)
    \/ Close
    \/ \E vp \in MoreViewports : SetViewport(vp)

SpecViewport == Init /\ [][NextViewport]_vars

\* the proxy of a grid whose rows are expanded and collapsed
NextExpand ==
    \/ Reconfigures
    \/ \E t \in 1..Len(transitions), err \in Errors : Reject(t, err)
    \/ \E row \in Rows, isExpanded \in BOOLEAN : SetRowExpanded(row, isExpanded)
    \/ ExpandAll
    \/ CollapseAll
    \/ Close

SpecExpand == Init /\ [][NextExpand]_vars

\* configuration changes alone, followed for one transition more
SpecDeep == InitDeep /\ [][Reconfigures]_vars

----------------------------------------------------------------------------
(* Steps, as seen from the state before and the state after *)

Issued == 1..Len(transitions)

\* a setter stored a new transition
Issues == Len(transitions') = Len(transitions) + 1

\* the underlying operation of t produced its model
Resolves(t) ==
    /\ Pending(t)
    /\ transitions'[t].status \in {"installed", "disposed"}

\* the underlying operation of t failed
Rejects(t) ==
    /\ Pending(t)
    /\ transitions'[t].status \in {"failed", "dropped"}

\* setModel ran on the result of t
Installs(t) == Pending(t) /\ transitions'[t].status = "installed"

Installed(t) == transitions[t].status = "installed"

\* t was canceled and its result was handed to the disposal callback
Disposed(t) == transitions[t].status = "disposed"

\* every underlying operation has produced its model
AllResolved ==
    \A t \in Issued : transitions[t].status \in {"installed", "disposed"}

AllSettled == \A t \in Issued : ~Pending(t)

----------------------------------------------------------------------------
(* C1 *)

\* C1 (supersession): once every build has produced its model, the active
\* model is the one of the last issued change
C1_LastIssuedWins ==
    (~closed /\ transitions # <<>> /\ AllResolved)
        => model = ResultOf(Len(transitions))

\* C1 (supersession): setModel only ever runs on the result of the last issued
\* transition, so a superseded result is never installed, and once every
\* build has produced its model the active model is the one of the last
\* issued change
C1_Supersession ==
    /\ [] C1_LastIssuedWins
    /\ [][\A t \in Issued :
            Installs(t) => (t = Len(transitions) /\ model' = ResultOf(t))]_vars

\* two changes were issued, both builds are done, the second one is active
C1_Witness ==
    /\ ~closed
    /\ Len(transitions) = 2
    /\ Disposed(1)
    /\ Installed(2)
    /\ ResultOf(1) = 1
    /\ model = 2

----------------------------------------------------------------------------
(* C2 *)

\* C2 (event relay has no gap): while the proxy is open and has listeners,
\* its handler is registered on the active model, so that every event of the
\* active model is relayed
C2_RelayNoGap ==
    (~closed /\ listenerCount > 0) => model \in subscribed

----------------------------------------------------------------------------
(* C3 *)

\* C3 (exactly-once subscription after a swap): when setModel completes with
\* listeners present, the handler is registered on the new active model and
\* on no other backing model
C3_SubscribedOnlyToNewModel ==
    [][\A t \in Issued :
         (Installs(t) /\ listenerCount > 0) => subscribed' = {model'}]_vars

----------------------------------------------------------------------------
(* C4 *)

\* C4 (the original model is closed only by close()): while close() has not
\* been called, originalModel.close() has never been invoked
C4_OriginalClosedOnlyByClose ==
    ~closed => closeCount[ORIGINAL] = 0

----------------------------------------------------------------------------
(* C5 *)

\* C5 (transition failure): when the underlying operation of a transition
\* that was not canceled fails, the slot is cleared, exactly one
\* REQUEST_FAILED event carrying that error is dispatched, and the active
\* model is the same and no model is closed
C5_TransitionFailure ==
    [][\A t \in Issued :
         (Rejects(t) /\ ~transitions[t].canceled) =>
            /\ modelPromise' = NoPromise
            /\ transitions'[t].error \in Errors
            /\ dispatched' =
                 << [type |-> "REQUEST_FAILED", detail |-> transitions'[t].error] >>
            /\ model' = model
            /\ closeCount' = closeCount]_vars

\* a transition has just failed while a replaced model was never built: the
\* event is out, the slot is empty, the active model is the original one, open
C5_Witness ==
    \E t \in Issued :
        /\ transitions[t].status = "failed"
        /\ dispatched = RequestFailed(transitions[t].error)
        /\ modelPromise = NoPromise
        /\ model = ORIGINAL
        /\ closeCount[ORIGINAL] = 0

----------------------------------------------------------------------------
(* C6 *)

\* C6 (cancellation is leak-free): the model that the underlying operation of
\* a canceled transition produced has been closed exactly once, and it is not
\* a model that setModel was given
C6_CanceledResultDisposedOnce ==
    \A t \in Issued :
        Disposed(t) =>
            /\ closeCount[ResultOf(t)] = 1
            /\ \A u \in Issued : Installed(u) => ResultOf(u) # ResultOf(t)

----------------------------------------------------------------------------
(* C7 *)

\* the content of the three recorded configurations is the same after the step
SameConfiguration ==
    /\ rollup'.val = rollup.val
    /\ partition'.mode = partition.mode
    /\ selectDistinct'.names = selectDistinct.names

\* C7 (equal-configuration no-op): no setter call whose value is deeply equal
\* to the recorded one starts a transition, for any of the three setters
C7_EqualConfigurationNoOp ==
    [][SameConfiguration => ~Issues]_vars

----------------------------------------------------------------------------
(* C8 *)

\* C8 (at most one live transition): every transition that is neither
\* canceled nor settled is the one stored in modelPromise, so there is at
\* most one, and a setter has canceled the one stored before it
C8_AtMostOneLive ==
    \A t \in Issued :
        (Pending(t) /\ ~transitions[t].canceled) => modelPromise = t

\* two transitions are unsettled; the first one is canceled and the second
\* one is stored
C8_Witness ==
    /\ Len(transitions) = 2
    /\ Pending(1) /\ Pending(2)
    /\ transitions[1].canceled
    /\ ~transitions[2].canceled
    /\ modelPromise = 2

----------------------------------------------------------------------------
(* C9 *)

\* backing models that exist: the original and every model a transition built
Built == {ORIGINAL} \cup {t \in Issued : ResultOf(t) = t /\
                            transitions[t].status \in {"installed", "disposed"}}

\* C9 (close releases everything exactly once): after close() and after all
\* background operations have settled, every model has been closed exactly
\* once
C9_ClosedExactlyOnce ==
    (closed /\ AllSettled) => \A m \in Built : closeCount[m] = 1

----------------------------------------------------------------------------
(* C10 *)

\* C10 (close with a pending transition): after close() no step changes the
\* active model or dispatches an event, and a model produced afterwards is
\* handed to the disposal callback, which closes it
C10_CloseCancelsPending ==
    [][closed =>
         /\ model' = model
         /\ dispatched' = <<>>
         /\ \A t \in Issued :
              Resolves(t) =>
                 /\ transitions'[t].status = "disposed"
                 /\ closeCount' = CloseModel(closeCount, ResultOf(t))]_vars

\* close() was called with transition t stored, and the model t built
\* afterwards has been disposed
C10_Witness ==
    \E t \in Issued :
        /\ closed
        /\ modelPromise = t
        /\ Disposed(t)
        /\ ResultOf(t) = t
        /\ closeCount[t] = 1
        /\ model # t

----------------------------------------------------------------------------
(* C11 *)

\* C11 (pending edits survive a swap): when a transition completes and its
\* model is made active, the pendingDataMap and the pendingRowCount that the
\* proxy reports are the ones it reported before the swap, whenever edits
\* were set through the proxy before.
C11_PendingEditsSurviveSwap ==
    [][\A t \in Issued :
         (Installs(t) /\ <<pendingDataMap, pendingRowCount>>
                           # <<NoPendingData.dataMap, NoPendingData.rowCount>>)
         => /\ pendingDataMap' = pendingDataMap
            /\ pendingRowCount' = pendingRowCount]_vars

----------------------------------------------------------------------------
(* C12 *)

----------------------------------------------------------------------------
(* C13 *)

\* C13 (rollup and select-distinct exclude each other): whenever a rollup is
\* recorded or the select-distinct columns are non-empty, isRollupAvailable
\* and isSelectDistinctAvailable are not both true; and no behaviour reaches
\* a state with a rollup recorded and non-empty select-distinct columns.
C13_RollupDistinctExclusive ==
    /\ (rollup # NullRollup \/ Len(selectDistinct.names) > 0)
           => ~(isRollupAvailable /\ isSelectDistinctAvailable)
    /\ ~(rollup # NullRollup /\ Len(selectDistinct.names) > 0)

\* select-distinct columns are recorded, their model is active, and the
\* rollup setter is refused
C13_Witness ==
    /\ Len(selectDistinct.names) > 0
    /\ model # ORIGINAL
    /\ transitions[model].source = "selectDistinct"
    /\ ~isRollupAvailable
    /\ isSelectDistinctAvailable

----------------------------------------------------------------------------
(* C14 *)

----------------------------------------------------------------------------
(* C15, C16 *)

\* events of one type among those dispatched in the last step
EventsOf(type) == SelectSeq(dispatched, LAMBDA e : e.type = type)

\* the setViewport call that passes viewport vp to backing model m
ViewportCall(m, vp) ==
    [model |-> m, top |-> vp.top, bottom |-> vp.bottom, columns |-> vp.columns]

\* C15 (viewport carried across a swap that keeps the columns): the recorded
\* viewport changes only in a setViewport step, which passes the same top,
\* bottom and columns to the active model; and when a transition completes
\* with a model whose columns array is the old model's and a viewport was
\* recorded (before or during the transition), setModel calls setViewport on
\* the new model exactly once, with the recorded top, bottom and columns, and
\* dispatches no COLUMNS_CHANGED.
C15_ViewportCarried ==
    [][/\ currentViewport' # currentViewport
            => calls' = << ViewportCall(model, currentViewport') >>
       /\ \A t \in Issued :
            (Installs(t) /\ columns' = columns /\ currentViewport # NoViewport)
            => /\ model' = ResultOf(t)
               /\ calls' = << ViewportCall(model', currentViewport) >>
               /\ EventsOf("COLUMNS_CHANGED")' = << >>]_vars

\* a swap to a built flat table with the old columns has just re-applied the
\* second viewport, which was set after the first one
C15_Witness ==
    /\ model # ORIGINAL
    /\ Installed(model)
    /\ columns = ORIGINAL
    /\ currentViewport \in MoreViewports \ Viewports
    /\ calls = << ViewportCall(model, currentViewport) >>
    /\ dispatched = << [type |-> "TABLE_CHANGED", detail |-> model] >>

\* C16 (a swap that changes the columns): when a transition completes with a
\* model whose columns array is not the old model's, setModel dispatches
\* exactly one COLUMNS_CHANGED, whose detail is the new model's columns, and
\* calls setViewport on no model, whether a viewport was recorded or not.
C16_ColumnsChangedNoViewport ==
    [][\A t \in Issued :
         (Installs(t) /\ columns' # columns)
         => /\ EventsOf("COLUMNS_CHANGED")'
                 = << [type |-> "COLUMNS_CHANGED", detail |-> columns'] >>
            /\ calls' = << >>]_vars

\* a swap has just announced new columns although a viewport was recorded
C16_Witness ==
    /\ model # ORIGINAL
    /\ Installed(model)
    /\ currentViewport # NoViewport
    /\ EventsOf("COLUMNS_CHANGED")
         = << [type |-> "COLUMNS_CHANGED", detail |-> columns] >>
    /\ columns = model
    /\ calls = << >>

----------------------------------------------------------------------------
(* C17 *)

\* C17 (configuration recorded immediately): the step in which a setter
\* issues a transition already leaves the new value in the getter: the
\* recorded value is the one the issued transition was derived from, and
\* availability follows it at once (a rollup makes select-distinct
\* unavailable, select-distinct columns make rollup unavailable). The
\* completion, failure or disposal of a transition changes no recorded
\* value, and isSelectDistinctAvailable is false for as long as a rollup is
\* recorded.
C17_ConfigurationRecordedAtOnce ==
    /\ [](rollup # NullRollup => ~isSelectDistinctAvailable)
    /\ [][/\ Issues =>
              LET source == transitions'[Len(transitions')].source IN
              \/ /\ rollup' # rollup
                 /\ source = RollupSource(rollup')
                 /\ rollup' # NullRollup => ~isSelectDistinctAvailable'
              \/ /\ selectDistinct' # selectDistinct
                 /\ source = SelectDistinctSource(selectDistinct')
                 /\ Len(selectDistinct'.names) > 0 => ~isRollupAvailable'
              \/ /\ UNCHANGED <<rollup, selectDistinct>>
                 /\ source = PartitionSource(partition')
          /\ (\E t \in Issued : Resolves(t) \/ Rejects(t))
                => UNCHANGED <<rollup, partition, selectDistinct>>]_vars

\* a rollup is recorded while its transition is still pending and the
\* original model still active
C17_Witness ==
    /\ rollup # NullRollup
    /\ model = ORIGINAL
    /\ modelPromise # NoPromise
    /\ Pending(modelPromise)
    /\ transitions[modelPromise].source = "rollup"
    /\ ~isSelectDistinctAvailable

----------------------------------------------------------------------------
(* C18 *)

\* C18 (transformations are never chained): the table of every model a
\* transition builds is the original table with exactly one transformation,
\* the one of the change that issued the transition; so the active model is
\* the original model or one transformation away from it, also when a
\* partition and a rollup are both recorded.
C18_NeverChained ==
    /\ \A t \in Issued :
         ResultOf(t) # ORIGINAL
         => /\ transitions[t].base = ORIGINAL
            /\ Derivation(t) = << transitions[t].source >>
    /\ Len(Derivation(model)) <= 1

\* a partition and a rollup are both recorded, the partition sub-table was
\* active when the rollup was issued, and the active model is the rollup of
\* the original table alone
C18_Witness ==
    /\ partition # NullPartition
    /\ rollup # NullRollup
    /\ model = 2
    /\ transitions[1].source = "partition"
    /\ transitions[1].status = "installed"
    /\ Derivation(model) = << "rollup" >>

----------------------------------------------------------------------------
(* C19 *)

\* the configuration that built model m has been set back to null / empty
Cleared(m) ==
    \/ transitions[m].source = "rollup" /\ rollup = NullRollup
    \/ transitions[m].source = "selectDistinct" /\ Len(selectDistinct.names) = 0
    \/ transitions[m].source = "partition" /\ partition = NullPartition

\* C19 (clearing a configuration returns to the original): when a built
\* model is active, its configuration has been set back to null / empty and
\* the transition to the original model completes, the active model is the
\* original model, which is not closed, and the model that was active has
\* been closed exactly once.
C19_ClearingReturnsToOriginal ==
    [][\A t \in Issued :
         (Installs(t) /\ ResultOf(t) = ORIGINAL
            /\ model # ORIGINAL /\ Cleared(model))
         => /\ model' = ORIGINAL
            /\ closeCount'[ORIGINAL] = 0
            /\ closeCount'[model] = 1]_vars

----------------------------------------------------------------------------
(* C20 *)

\* C20 (table-changed notification): when a transition completes and its
\* model is made active, setModel dispatches exactly one TABLE_CHANGED if the
\* new model is table-backed, carrying the table that the proxy now reports,
\* and it is the last event of the swap (after COLUMNS_CHANGED, if any); it
\* dispatches none if the new model is not table-backed.
C20_TableChangedNotification ==
    [][\A t \in Issued :
         Installs(t)
         => /\ model' = ResultOf(t)
            /\ IF isIrisGridTableModelTemplate(ShapeOf(ResultOf(t)))
               THEN /\ EventsOf("TABLE_CHANGED")'
                         = << [type |-> "TABLE_CHANGED", detail |-> table'] >>
                    /\ dispatched'[Len(dispatched')].type = "TABLE_CHANGED"
               ELSE EventsOf("TABLE_CHANGED")' = << >>]_vars

\* a swap to a flat table with new columns has just dispatched COLUMNS_CHANGED
\* and then TABLE_CHANGED
C20_Witness ==
    /\ model # ORIGINAL
    /\ Installed(model)
    /\ dispatched = << [type |-> "COLUMNS_CHANGED", detail |-> columns],
                       [type |-> "TABLE_CHANGED", detail |-> table] >>

----------------------------------------------------------------------------
(* C21 *)

\* C21 (pending slot bookkeeping): whenever modelPromise is not null it refers
\* to a transition that is neither canceled nor settled; a cancellation, by a
\* later setter or by close(), leaves no canceled transition in the slot.
C21_SlotBookkeeping ==
    modelPromise # NoPromise
    => /\ Pending(modelPromise)
       /\ ~transitions[modelPromise].canceled

----------------------------------------------------------------------------
(* C22 *)

\* C22 (no leaked listeners): whenever the proxy has no listener, its handler
\* is registered on no backing model.
C22_NoLeakedListeners ==
    listenerCount = 0 => subscribed = {}

----------------------------------------------------------------------------
(* C23 *)

\* the expand calls among the calls made on backing models in the last step
ExpandCalls ==
    SelectSeq(calls, LAMBDA c : "name" \in DOMAIN c)

\* the fields of the proxy
ProxyState ==
    <<original, model, modelPromise, rollup, partition, selectDistinct,
      currentViewport, listenerCount, subscribed, transitions, columns,
      closeCount, closed, pendingData>>

\* C23 (expand operations follow the active model): while the active model
\* is not expandable, isRowExpandable, isRowExpanded and hasExpandableRows
\* are false and depthForRow is 0, no expand call reaches a backing model,
\* and an expand operation throws "Function <name> does not exist on
\* IrisGridTableModel" and changes nothing; while it is expandable the
\* queries return the active model's answers, and an expand operation is
\* forwarded to the active model and throws nothing.
C23_ExpandOperations ==
    /\ [](IF isExpandableGridModel(ShapeOf(model))
          THEN /\ hasExpandableRows = ModelCapabilities(model).hasExpandableRows
               /\ \A row \in Rows :
                    /\ isRowExpandable(row) = ModelRow(model, row).isRowExpandable
                    /\ isRowExpanded(row) = ModelRow(model, row).isRowExpanded
                    /\ depthForRow(row) = ModelRow(model, row).depthForRow
          ELSE /\ ~hasExpandableRows
               /\ \A row \in Rows :
                    /\ ~isRowExpandable(row)
                    /\ ~isRowExpanded(row)
                    /\ depthForRow(row) = 0)
    /\ [][IF isExpandableGridModel(ShapeOf(model))
          THEN /\ expandError' = NoError
               /\ \A i \in 1..Len(ExpandCalls') : ExpandCalls'[i].model = model
          ELSE /\ ExpandCalls' = << >>
               /\ expandError' # NoError
                    => /\ expandError' \in {DoesNotExist("setRowExpanded"),
                                            DoesNotExist("expandAll"),
                                            DoesNotExist("collapseAll")}
                       /\ calls' = << >>
                       /\ dispatched' = << >>
                       /\ UNCHANGED ProxyState]_vars

\* setRowExpanded has just thrown on a flat select-distinct model that
\* replaced the original model, with a transition pending
C23_Witness ==
    /\ expandError = DoesNotExist("setRowExpanded")
    /\ model # ORIGINAL
    /\ ~isExpandableGridModel(ShapeOf(model))
    /\ modelPromise # NoPromise
    /\ Pending(modelPromise)
    /\ ~transitions[modelPromise].canceled

----------------------------------------------------------------------------
(* C24 *)

\* the last transition issued
LastIssued(trs) == trs[Len(trs)]

\* C24 (a failed transition does not roll back the configuration): the
\* failure of a transition changes neither the recorded configurations nor
\* the active model; and a rollup is built only by a step that records a
\* rollup with another content, so that after a failed rollup X assigning a
\* value deeply equal to X starts no transition, and the rollup is built
\* again only once another value has been recorded.
C24_FailureKeepsConfiguration ==
    [][/\ \A t \in Issued :
            Rejects(t) => UNCHANGED <<rollup, partition, selectDistinct, model>>
       /\ (Issues /\ LastIssued(transitions').source = "rollup")
            => rollup'.val # rollup.val
       /\ (/\ transitions # << >>
           /\ LastIssued(transitions).status = "failed"
           /\ LastIssued(transitions).source = "rollup"
           /\ rollup'.val = rollup.val)
            => /\ model' = model
               /\ Issues => LastIssued(transitions').source # "rollup"]_vars

\* the rollup byA failed: it is still recorded, no transition is stored and
\* the original model is still active
C24_Witness ==
    /\ Len(transitions) = 1
    /\ transitions[1].status = "failed"
    /\ transitions[1].source = "rollup"
    /\ rollup.val = "byA"
    /\ modelPromise = NoPromise
    /\ model = ORIGINAL
    /\ ~closed

----------------------------------------------------------------------------
(* C25 *)

\* C25 (the active model is never a closed model): while close() has not been
\* called, close() has not been invoked on the active model.
C25_ActiveModelNotClosed ==
    ~closed => closeCount[model] = 0

============================================================================
